---- MODULE Spec2Model ----
(***************************************************************************)
(* Model of the ProductsRAG repository (src/product_rag.py, src/app.py):   *)
(* the agent loop and its per-thread checkpoints, the catalog loader, the  *)
(* vector-store initialisation, the retrieval tools, the chat session of   *)
(* the Streamlit page and the constructions of several sessions.           *)
(***************************************************************************)
EXTENDS Integers, Sequences, FiniteSets, TLC

VARIABLES
    checkpoint,     \* MemorySaver: thread id -> the "messages" channel of AgentState
    pc,             \* position of the running graph: "idle", "agent", "tools", "end"
    cur,            \* thread id of the config of the current / last query()
    thread_arg,     \* the thread_id argument as passed to the last query() (NoArg = omitted)
    returned,       \* what the last query() returned (None before / when it raised)
    outcome,        \* "none", "returned" or "raised": how the last query() left
    executed,       \* log of the tool calls ToolNode has executed, as <<thread, call>>
    turns,          \* number of query() calls made on this ProductRAG instance
    used,           \* thread ids the query() calls of this instance have run under
    products_file,  \* products.txt: the lines of the catalog file, each a sequence of tokens
    products_json,  \* self.products_json: what _load_products returned
    step,           \* "init" before the operation under study has run, "done" after
    chroma_dir,     \* the directory chroma_db_openai: what is persisted of the index
    vector_store,   \* self.vector_store: None, or the Chroma handle onto chroma_dir
    ui,             \* the session of app.py: "none", "ready" (rag_system set) or "stopped"
    construction,   \* how the last ProductRAG() ended: "none", "built", "loaded", "failed", "error"
    tool_call,      \* the last call of a retrieval tool, with its hits and its result
    session_messages,   \* st.session_state.messages: the chat shown, as role/content records
    session_thread_id,  \* st.session_state.thread_id: the uuid the session's queries run under
    generated,      \* the values uuid.uuid4() has returned so far
    last_ui,        \* the handler of app.py that ran last: "none", "input", "button", ...
    sessions,       \* the browser sessions that are constructing a ProductRAG, each with its position
    writes          \* the constructions that have written to chroma_dir, in order

agentVars == <<checkpoint, pc, cur, thread_arg, returned, outcome, executed, turns, used>>

loadVars == <<products_file, products_json, step>>
indexVars == <<chroma_dir, vector_store, ui, construction>>
storeVars == <<loadVars, indexVars, tool_call>>

uiVars == <<session_messages, session_thread_id, generated, last_ui>>
sessVars == <<sessions, writes>>
appVars == <<uiVars, sessVars>>

vars == <<agentVars, storeVars, appVars>>

(***************************************************************************)
(* Bounds                                                                  *)
(***************************************************************************)
MaxTurns == 2       \* query() calls per behaviour
MaxRounds == 1      \* agent -> tools round trips the modelled LLM asks for per query()
MaxLines == 2       \* lines of a catalog file given to the loader
MaxProducts == 2    \* lines of a catalog file behind the index and the search tools
MaxCatalog == 11    \* lines of a catalog file scanned by the category filter
MaxSessions == 2    \* browser sessions that construct a ProductRAG over one index directory

(***************************************************************************)
(* Values                                                                  *)
(***************************************************************************)
None == "None"
NoArg == "<omitted>"
ThreadIds == {"default", "A", "B"}
ThreadArgs == {NoArg, "A", "B"}
Questions == {"q1", "q2"}
SYSTEM_PROMPT == "You are a helpful grocery store assistant."
AiTexts == {"answer", ""}

ToolCall(name, id) == [name |-> name, id |-> id]

\* the tool_calls lists the LLM bound to the four tools may answer with
ToolCallLists ==
    { <<>>,
      <<ToolCall("get_products_by_category", "call_1"),
        ToolCall("find_products_for_athletes", "call_2")>> }

Message(type, content, calls, id, t) ==
    [type |-> type, content |-> content, tool_calls |-> calls,
     tool_call_id |-> id, thread |-> t]

SystemMessage(t) == Message("system", SYSTEM_PROMPT, <<>>, None, t)
HumanMessage(q, t) == Message("human", q, <<>>, None, t)
AIMessage(text, calls, t) == Message("ai", text, calls, None, t)
ToolMessage(content, call, t) == Message("tool", content, <<>>, call.id, t)

Last(s) == s[Len(s)]

IsPrefix(s, t) == Len(s) <= Len(t) /\ SubSeq(t, 1, Len(s)) = s

(***************************************************************************)
(* query(): thread_id: str = "default"                                     *)
(***************************************************************************)
thread_id(arg) == IF arg = NoArg THEN "default" ELSE arg

initial_state_NoSystem(question, t) == <<HumanMessage(question, t)>>

\* initial_state["messages"]
initial_state(question, t) == <<SystemMessage(t), HumanMessage(question, t)>>

add_Overwrite(old, new) == new

\* AgentState.messages: Annotated[List, add], the channel's reducer
add(old, new) == old \o new

\* MemorySaver, keyed by config["configurable"]["thread_id"]
CheckpointGet(cp, t) == cp[t]
CheckpointPut_OneThread(cp, t, msgs) == [cp EXCEPT !["default"] = msgs]

CheckpointPut(cp, t, msgs) == [cp EXCEPT ![t] = msgs]

should_continue_OnText(messages) ==
    IF Last(messages).content # "" THEN "end" ELSE "tools"

\* should_continue: the conditional edge out of "agent"
should_continue(messages) ==
    IF Last(messages).tool_calls = <<>> THEN "end" ELSE "tools"

\* the mapping of add_conditional_edges: {"tools": "tools", "end": END}
Route(label) == IF label = "tools" THEN "tools" ELSE "end"

ToolNode_FirstOnly(calls, results, t) ==
    [i \in 1..1 |-> ToolMessage(results[i], calls[i], t)]

\* ToolNode(tools): one ToolMessage per requested call, in request order
ToolNode(calls, results, t) ==
    [i \in 1..Len(calls) |-> ToolMessage(results[i], calls[i], t)]

\* number of AI messages with tool calls since the last human message
RECURSIVE RoundsFrom(_, _)
RoundsFrom(msgs, i) ==
    IF i = 0 \/ msgs[i].type = "human" THEN 0
    ELSE RoundsFrom(msgs, i - 1)
         + (IF msgs[i].type = "ai" /\ msgs[i].tool_calls # <<>> THEN 1 ELSE 0)

Rounds(msgs) == RoundsFrom(msgs, Len(msgs))

(***************************************************************************)
(* Init: a constructed ProductRAG, no query made                           *)
(***************************************************************************)
AgentInit ==
    /\ checkpoint = [t \in ThreadIds |-> <<>>]
    /\ pc = "idle"
    /\ cur = "default"
    /\ thread_arg = NoArg
    /\ returned = None
    /\ outcome = "none"
    /\ executed = <<>>
    /\ turns = 0
    /\ used = {}

\* the store as the agent-loop specification sees it: a loaded, fixed catalog
NoDir == [exists |-> FALSE, nonempty |-> FALSE, docs |-> <<>>, complete |-> FALSE]
NoCall == [tool |-> "none", args |-> <<>>, hits |-> <<>>, status |-> "none", value |-> <<>>]

\* no ProductRAG constructed yet, no index on disk
IndexNone ==
    /\ chroma_dir = NoDir
    /\ vector_store = None
    /\ ui = "none"
    /\ construction = "none"
    /\ tool_call = NoCall

StoreFixed ==
    /\ products_file = <<>>
    /\ products_json = <<>>
    /\ step = "done"
    /\ chroma_dir = [exists |-> TRUE, nonempty |-> TRUE, docs |-> <<>>, complete |-> TRUE]
    /\ vector_store = "chroma_db_openai"
    /\ ui = "ready"
    /\ construction = "built"
    /\ tool_call = NoCall

\* no chat session and no concurrent construction is under study
AppNone ==
    /\ session_messages = <<>>
    /\ session_thread_id = None
    /\ generated = {}
    /\ last_ui = "none"
    /\ sessions = <<>>
    /\ writes = <<>>

Init == AgentInit /\ StoreFixed /\ AppNone

(***************************************************************************)
(* query(question, thread_id): graph.invoke(initial_state, config) applies *)
(* the input to the thread's checkpoint and enters the entry point "agent" *)
(***************************************************************************)
QueryCall(question, arg) ==
    /\ pc = "idle"
    /\ turns < MaxTurns
    /\ LET t == thread_id(arg)
       IN  /\ checkpoint' = CheckpointPut(checkpoint, t,
                                add(CheckpointGet(checkpoint, t), initial_state(question, t)))
           /\ cur' = t
    /\ thread_arg' = arg
    /\ pc' = "agent"
    /\ returned' = None
    /\ outcome' = "none"
    /\ turns' = turns + 1
    /\ used' = used \cup {thread_id(arg)}
    /\ UNCHANGED executed

\* query() called directly on the instance (the __main__ block, test_system.py)
Query(question, arg) ==
    /\ QueryCall(question, arg)
    /\ UNCHANGED <<storeVars, appVars>>

\* agent node: response = llm_with_tools.invoke(messages); then the conditional edge
AgentNode(text, calls) ==
    /\ pc = "agent"
    /\ LET messages == add(CheckpointGet(checkpoint, cur), <<AIMessage(text, calls, cur)>>)
       IN  /\ checkpoint' = CheckpointPut(checkpoint, cur, messages)
           /\ pc' = Route(should_continue(messages))
    /\ UNCHANGED <<cur, thread_arg, returned, outcome, executed, turns, used>>

\* the agent node with the modelled LLM asking for at most MaxRounds round trips
Agent(text, calls) ==
    /\ calls # <<>> => Rounds(CheckpointGet(checkpoint, cur)) < MaxRounds
    /\ AgentNode(text, calls)
    /\ UNCHANGED <<storeVars, appVars>>

\* an exception raised in the node `at` leaves graph.invoke and query()
Raise(at) ==
    /\ pc = at
    /\ pc' = "idle"
    /\ outcome' = "raised"
    /\ UNCHANGED <<checkpoint, cur, thread_arg, returned, executed, turns, used>>

\* llm_with_tools.invoke raises: the exception leaves query()
AgentRaise ==
    /\ Raise("agent")
    /\ UNCHANGED <<storeVars, appVars>>

\* tools node, then the edge tools -> agent
Tools(results) ==
    /\ pc = "tools"
    /\ LET messages == CheckpointGet(checkpoint, cur)
           calls == Last(messages).tool_calls
       IN  /\ Len(results) = Len(calls)
           /\ checkpoint' = CheckpointPut(checkpoint, cur,
                                add(messages, ToolNode(calls, results, cur)))
           /\ executed' = executed \o [i \in 1..Len(calls) |-> <<cur, calls[i]>>]
    /\ pc' = "agent"
    /\ UNCHANGED <<cur, thread_arg, returned, outcome, turns, used, storeVars, appVars>>

\* a tool's exception propagates out of ToolNode and of query()
ToolsRaise ==
    /\ Raise("tools")
    /\ UNCHANGED <<storeVars, appVars>>

\* END: final_message = result["messages"][-1]; return final_message.content
ReturnContent ==
    /\ pc = "end"
    /\ returned' = Last(CheckpointGet(checkpoint, cur)).content
    /\ outcome' = "returned"
    /\ pc' = "idle"
    /\ UNCHANGED <<checkpoint, cur, thread_arg, executed, turns, used>>

\* query() returns to a direct caller
Return ==
    /\ ReturnContent
    /\ UNCHANGED <<storeVars, appVars>>

\* what the tools of one request return: the serialized list of each call
ResultLists == { [i \in 1..n |-> "[...]"] : n \in 1..2 }

\* what the LLM may answer: a text without tool calls, or tool calls without text
Responses ==
    { [text |-> x, calls |-> <<>>] : x \in AiTexts }
    \cup { [text |-> "", calls |-> c] : c \in ToolCallLists \ {<<>>} }

Next ==
    \/ \E q \in Questions, arg \in ThreadArgs : Query(q, arg)
    \/ \E r \in Responses : Agent(r.text, r.calls)
    \/ AgentRaise
    \/ \E results \in ResultLists : Tools(results)
    \/ ToolsRaise
    \/ Return

Spec == Init /\ [][Next]_vars

(***************************************************************************)
(* Agent loop and thread checkpoints: properties                           *)
(***************************************************************************)
\* the step is query() entering the graph
QueryStep == pc = "idle" /\ pc' = "agent"
\* the step is the agent node appending the model's response
AgentStep == pc = "agent" /\ checkpoint'[cur] # checkpoint[cur]
\* the step is the tools node completing
ToolsStep == pc = "tools" /\ pc' # "idle"

\* C1: when the response of the agent step carries no tool calls the loop goes
\* straight to end, no tool runs after it, and query() returns the content of
\* that response, the last message of the history.
C1_NoToolCallsEnds ==
    [][ /\ (AgentStep /\ Last(checkpoint'[cur]).tool_calls = <<>>) => pc' = "end"
        /\ pc = "end" =>
              /\ Last(checkpoint[cur]).type = "ai"
              /\ Last(checkpoint[cur]).tool_calls = <<>>
              /\ pc' = "idle"
              /\ outcome' = "returned"
              /\ returned' = Last(checkpoint[cur]).content
              /\ executed' = executed
              /\ checkpoint' = checkpoint ]_vars

C1_Witness ==
    /\ pc = "idle" /\ outcome = "returned" /\ returned = "answer"
    /\ Last(checkpoint[cur]).tool_calls = <<>>
    /\ executed = <<>>

C3_ThreadIsolation ==
    /\ [](\A t \in ThreadIds : \A i \in 1..Len(checkpoint[t]) : checkpoint[t][i].thread = t)
    /\ [][\A t \in ThreadIds \ {cur'} : checkpoint'[t] = checkpoint[t]]_vars

C3_Witness ==
    /\ checkpoint["A"] # <<>> /\ checkpoint["B"] # <<>>
    /\ pc = "idle" /\ outcome = "returned"

\* C4 as stated: a query() with a thread id not used before, or with the thread
\* id omitted, starts from the history <<system prompt, user message>>.
C4_FreshWhenNewOrOmitted ==
    [][ (QueryStep /\ (cur' \notin used \/ thread_arg' = NoArg)) =>
          \E q \in Questions :
              checkpoint'[cur'] = <<SystemMessage(cur'), HumanMessage(q, cur')>> ]_vars

\* C4 amended: a query() whose thread id (an omitted one being the id "default")
\* no earlier query() of the instance has used starts from the history
\* <<system prompt, user message>>, whatever was asked on other threads.
C4_FreshWhenNew ==
    [][ (QueryStep /\ cur' \notin used) =>
          \E q \in Questions :
              checkpoint'[cur'] = <<SystemMessage(cur'), HumanMessage(q, cur')>> ]_vars

C4_Witness ==
    /\ pc = "agent" /\ turns = 2 /\ cur = "B"
    /\ checkpoint["A"] # <<>>
    /\ Len(checkpoint["B"]) = 2

\* C5: a thread's history only grows, each new history keeping the previous one
\* as a prefix, and a query() on a thread extends the thread's previous history
\* by the turn's system prompt and user message.
C5_HistoryAccumulates ==
    [][ /\ \A t \in ThreadIds : IsPrefix(checkpoint[t], checkpoint'[t])
        /\ QueryStep =>
              \E q \in Questions :
                  checkpoint'[cur'] =
                      checkpoint[cur'] \o <<SystemMessage(cur'), HumanMessage(q, cur')>> ]_vars

C5_Witness ==
    /\ pc = "agent" /\ turns = 2
    /\ Len(checkpoint[cur]) >= 5
    /\ checkpoint[cur][Len(checkpoint[cur]) - 1].type = "system"
    /\ checkpoint[cur][3].type = "ai"

(***************************************************************************)
(* Catalog file and JSON values                                            *)
(***************************************************************************)
\* a parsed JSON object (a dict); a key the object lacks reads as None
Dict(sku, name, desc, cats) ==
    [kind |-> "dict", sku |-> sku, name |-> name, brandName |-> "BrandX",
     description |-> desc, price |-> "$3.99", categories |-> cats]

\* a parsed JSON value that is no object, such as the number 42
IntValue ==
    [kind |-> "int", sku |-> None, name |-> None, brandName |-> None,
     description |-> 0, price |-> None, categories |-> <<>>]

NoValue ==
    [kind |-> "none", sku |-> None, name |-> None, brandName |-> None,
     description |-> 0, price |-> None, categories |-> <<>>]

\* the pieces of text a line is made of: a complete JSON value, text that is
\* no JSON, a comma, a blank, the line terminator
Json(v) == [k |-> "json", v |-> v]
Junk == [k |-> "junk", v |-> NoValue]
Comma == [k |-> ",", v |-> NoValue]
Blank == [k |-> " ", v |-> NoValue]
Newline == [k |-> "\n", v |-> NoValue]

Whitespace == {" ", "\n"}

\* str.rstrip(chars)
RECURSIVE rstrip(_, _)
rstrip(line, chars) ==
    IF line # <<>> /\ Last(line).k \in chars
    THEN rstrip(SubSeq(line, 1, Len(line) - 1), chars)
    ELSE line

\* str.lstrip()
RECURSIVE lstrip(_, _)
lstrip(line, chars) ==
    IF line # <<>> /\ line[1].k \in chars
    THEN lstrip(SubSeq(line, 2, Len(line)), chars)
    ELSE line

\* str.strip()
strip(line) == lstrip(rstrip(line, Whitespace), Whitespace)

\* json.loads: the text must be exactly one JSON value, else JSONDecodeError
json_loads(text) ==
    IF Len(text) = 1 /\ text[1].k = "json"
    THEN [ok |-> TRUE, value |-> text[1].v]
    ELSE [ok |-> FALSE, value |-> NoValue]

\* the body of the loop of _load_products for one line
LoadLine(products, line) ==
    LET stripped == rstrip(line, {",", "\n"})
        parsed == json_loads(strip(stripped))
    IN  IF parsed.ok THEN Append(products, parsed.value) ELSE products

\* _load_products: for line in file
RECURSIVE LoadFrom(_, _, _)
LoadFrom(products, file, i) ==
    IF i > Len(file) THEN products
    ELSE LoadFrom(LoadLine(products, file[i]), file, i + 1)

_load_products(file) == LoadFrom(<<>>, file, 1)

(***************************************************************************)
(* The loader on catalog files of up to MaxLines lines                     *)
(***************************************************************************)
Skus == {"A1", "B2"}

LineBodies ==
    {<<>>, <<Junk>>, <<Json(IntValue)>>}
    \cup { <<Json(Dict(sku, "Greek Yogurt", 0, <<>>))>> : sku \in Skus }
LineTrails == {<<>>, <<Comma>>}

\* a value alone or before a comma, and an object among blanks and commas
LineContents ==
    { body \o trail : body \in LineBodies, trail \in LineTrails }
    \cup { <<Blank, Json(Dict("A1", "Greek Yogurt", 0, <<>>)), Comma>>,
            <<Json(Dict("A1", "Greek Yogurt", 0, <<>>)), Comma, Blank>>,
            <<Json(Dict("A1", "Greek Yogurt", 0, <<>>)), Comma, Comma>>,
            <<Json(Dict("B2", "Greek Yogurt", 0, <<>>)), Blank>> }

\* every line ends with the terminator, except possibly a non-empty last one
LoadFiles ==
    {<<>>} \cup
    UNION { { [i \in 1..n |-> IF i < n THEN inner[i] \o <<Newline>> ELSE last] :
                inner \in [1..(n - 1) -> LineContents],
                last \in { c \o <<Newline>> : c \in LineContents }
                         \cup (LineContents \ {<<>>}) } : n \in 1..MaxLines }

LoadInit ==
    /\ AgentInit
    /\ AppNone
    /\ IndexNone
    /\ products_file \in LoadFiles
    /\ products_json = <<>>
    /\ step = "init"

\* self.products_json = self._load_products()
LoadProducts ==
    /\ step = "init"
    /\ products_json' = _load_products(products_file)
    /\ step' = "done"
    /\ UNCHANGED <<products_file, agentVars, indexVars, tool_call, appVars>>

LoadNext == LoadProducts

SpecLoad == LoadInit /\ [][LoadNext]_vars

\* the text of a line without its terminator
Content(line) == rstrip(line, {"\n"})

\* a valid catalog line: a JSON object, optionally followed by one comma
IsObject(tok) == tok.k = "json" /\ tok.v.kind = "dict"
ValidLine(line) ==
    LET c == Content(line)
    IN  \/ Len(c) = 1 /\ IsObject(c[1])
        \/ Len(c) = 2 /\ IsObject(c[1]) /\ c[2] = Comma

\* a malformed line: it holds no JSON object at all
MalformedLine(line) == \A i \in 1..Len(line) : ~IsObject(line[i])

\* the JSON object of a line that holds one
ObjectOf(line) == (CHOOSE i \in 1..Len(line) : IsObject(line[i]))

RECURSIVE Kept(_, _, _)
Kept(file, keep, i) ==
    IF i > Len(file) THEN <<>>
    ELSE (IF keep[i] THEN <<file[i][ObjectOf(file[i])].v>> ELSE <<>>) \o Kept(file, keep, i + 1)

\* C6: the loader returns one Product per valid line, in file order and with the
\* line's sku, and nothing for a malformed line, whatever lines precede it.
C6_OnePerValidLine ==
    step = "done" =>
        \E keep \in [1..Len(products_file) -> BOOLEAN] :
            /\ \A i \in 1..Len(products_file) :
                  /\ ValidLine(products_file[i]) => keep[i]
                  /\ MalformedLine(products_file[i]) => ~keep[i]
                  /\ keep[i] => ~MalformedLine(products_file[i])
            /\ products_json = Kept(products_file, keep, 1)

(***************************************************************************)
(* _init_vector_store and the session start of app.py                      *)
(***************************************************************************)
Yogurt == Dict("A1", "Greek Yogurt", 200, <<>>)
Chips == Dict("B2", "Chips", 0, <<>>)

CatalogLine(v) == <<Json(v), Comma, Newline>>

\* catalog files of up to MaxProducts well-formed lines, no line twice
StoreFiles ==
    UNION { { f \in [1..n -> {CatalogLine(Yogurt), CatalogLine(Chips), CatalogLine(IntValue)}] :
                \A i, j \in 1..n : i # j => f[i] # f[j] } : n \in 0..MaxProducts }

\* x or default
Or(x, default) == IF x = None THEN default ELSE x

\* metadatas: one entry per product, in catalog order
Metadatas(products) ==
    [i \in 1..Len(products) |->
        [id |-> Or(products[i].sku, "unknown"),
         name |-> Or(products[i].name, "Unknown Product"),
         brandName |-> Or(products[i].brandName, "Unknown Brand")]]

\* product.get(...) works on a dict only
AllDicts(products) == \A i \in 1..Len(products) : products[i].kind = "dict"

\* if self.chroma_dir.exists() and any(self.chroma_dir.iterdir())
IndexExists(dir) == dir.exists /\ dir.nonempty

\* what Chroma.from_texts leaves in persist_directory when the embedding call
\* raises: the directory as it was, or the store Chroma created in it holding
\* the documents of the batches embedded before the failure
LeftBehind(dir, metadatas) ==
    {dir} \cup
    { [exists |-> TRUE, nonempty |-> TRUE, docs |-> SubSeq(metadatas, 1, n), complete |-> FALSE] :
        n \in 0..(Len(metadatas) - 1) }

StoreInit ==
    /\ AgentInit
    /\ AppNone
    /\ IndexNone
    /\ products_file \in StoreFiles
    /\ products_json = <<>>
    /\ step = "done"

\* initialize_session_state -> ProductRAG(): the index directory is there, load it
StartLoad ==
    /\ ui # "ready"
    /\ IndexExists(chroma_dir)
    /\ products_json' = _load_products(products_file)
    /\ vector_store' = "chroma_db_openai"
    /\ ui' = "ready"
    /\ construction' = "loaded"
    /\ UNCHANGED <<products_file, step, chroma_dir, tool_call, agentVars, appVars>>

\* initialize_session_state -> ProductRAG(): no index yet, build and persist it
StartBuild ==
    /\ ui # "ready"
    /\ ~IndexExists(chroma_dir)
    /\ LET products == _load_products(products_file)
       IN  /\ AllDicts(products)
           /\ products_json' = products
           /\ chroma_dir' = [exists |-> TRUE, nonempty |-> TRUE,
                              docs |-> Metadatas(products), complete |-> TRUE]
    /\ vector_store' = "chroma_db_openai"
    /\ ui' = "ready"
    /\ construction' = "built"
    /\ UNCHANGED <<products_file, step, tool_call, agentVars, appVars>>

\* the embedding service fails during the build: ProductRAG() raises, the
\* session shows st.error and st.stop()
StartBuildFails ==
    /\ ui # "ready"
    /\ ~IndexExists(chroma_dir)
    /\ LET products == _load_products(products_file)
       IN  /\ AllDicts(products)
           /\ \E left \in LeftBehind(chroma_dir, Metadatas(products)) : chroma_dir' = left
    /\ products_json' = <<>>
    /\ vector_store' = None
    /\ ui' = "stopped"
    /\ construction' = "failed"
    /\ UNCHANGED <<products_file, step, tool_call, agentVars, appVars>>

\* a loaded entry that is no dict: product.get raises AttributeError while the
\* documents are prepared, before Chroma is reached
StartBuildError ==
    /\ ui # "ready"
    /\ ~IndexExists(chroma_dir)
    /\ ~AllDicts(_load_products(products_file))
    /\ products_json' = <<>>
    /\ vector_store' = None
    /\ ui' = "stopped"
    /\ construction' = "error"
    /\ UNCHANGED <<products_file, step, chroma_dir, tool_call, agentVars, appVars>>

\* a new browser session: st.session_state starts empty
NewSession ==
    /\ ui = "ready"
    /\ ui' = "none"
    /\ products_json' = <<>>
    /\ vector_store' = None
    /\ tool_call' = NoCall
    /\ UNCHANGED <<products_file, step, chroma_dir, construction, agentVars, appVars>>

\* products.txt is replaced between two starts
EditCatalog(file) ==
    /\ ui # "ready"
    /\ file # products_file
    /\ products_file' = file
    /\ UNCHANGED <<products_json, step, indexVars, tool_call, agentVars, appVars>>

(***************************************************************************)
(* The retrieval tools over the index (_create_tools)                      *)
(***************************************************************************)
\* {}: what get_product_by_sku returns when no product has the sku
EmptyDict ==
    [kind |-> "dict", sku |-> None, name |-> None, brandName |-> None,
     description |-> 0, price |-> None, categories |-> <<>>]

\* the truth value of a dict: it has a key
Truthy(product) == product # EmptyDict

Min(a, b) == IF a <= b THEN a ELSE b

\* get_product_by_sku: the first product whose sku is the given one; .get on an
\* entry that is no dict raises AttributeError
RECURSIVE GetFrom(_, _, _)
GetFrom(products, sku, i) ==
    IF i > Len(products) THEN [raised |-> FALSE, product |-> EmptyDict]
    ELSE IF products[i].kind # "dict" THEN [raised |-> TRUE, product |-> EmptyDict]
    ELSE IF products[i].sku = sku THEN [raised |-> FALSE, product |-> products[i]]
    ELSE GetFrom(products, sku, i + 1)

get_product_by_sku(products, sku) == GetFrom(products, sku, 1)

\* similarity_search(query, k): min(k, n) distinct documents of the n indexed
Hits(k, n) ==
    { h \in [1..Min(k, n) -> 1..n] : \A i, j \in 1..Min(k, n) : i # j => h[i] # h[j] }

\* doc.metadata.get('id') of each hit
HitIds(docs, h) == [i \in 1..Len(h) |-> docs[h[i]].id]

\* the entry search_products appends for a product; description[:200]
SearchEntry(product, score) ==
    [name |-> Or(product.name, "Unknown"),
     brand |-> Or(product.brandName, "Unknown"),
     price |-> Or(product.price, "N/A"),
     description |-> Min(product.description, 200),
     relevance_score |-> 100 - score]

\* the loop of search_products over the hits
RECURSIVE SearchFrom(_, _, _, _, _)
SearchFrom(products, ids, score, i, products_info) ==
    IF i > Len(ids) THEN [status |-> "ok", value |-> products_info]
    ELSE LET r == get_product_by_sku(products, ids[i])
         IN  IF r.raised THEN [status |-> "raised", value |-> <<>>]
             ELSE SearchFrom(products, ids, score, i + 1,
                             IF Truthy(r.product)
                             THEN Append(products_info, SearchEntry(r.product, score))
                             ELSE products_info)

search_products(products, ids, score) == SearchFrom(products, ids, score, 1, <<>>)

\* the entry find_products_for_athletes appends; description[:150]
AthleteEntry(product) ==
    [name |-> product.name,
     brand |-> product.brandName,
     price |-> Or(product.price, "N/A"),
     description |-> Min(product.description, 150)]

\* product not in all_products: the catalog dict against the entries appended
NotIn(product, all_products) ==
    \A i \in 1..Len(all_products) : all_products[i] # product

\* the loops of find_products_for_athletes over the hits of the three queries
RECURSIVE AthletesFrom(_, _, _, _)
AthletesFrom(products, ids, i, all_products) ==
    IF i > Len(ids)
    THEN [status |-> "ok", value |-> SubSeq(all_products, 1, Min(10, Len(all_products)))]
    ELSE LET r == get_product_by_sku(products, ids[i])
         IN  IF r.raised THEN [status |-> "raised", value |-> <<>>]
             ELSE AthletesFrom(products, ids, i + 1,
                               IF Truthy(r.product) /\ NotIn(r.product, all_products)
                               THEN Append(all_products, AthleteEntry(r.product))
                               ELSE all_products)

find_products_for_athletes(products, ids) == AthletesFrom(products, ids, 1, <<>>)

Limits == {1, 5}        \* limit: int = 5
Scores == {25, 150}     \* the distance of a call's hits, in hundredths

\* the tool search_products(query, limit)
SearchProducts(limit, score) ==
    /\ ui = "ready"
    /\ \E h \in Hits(limit, Len(chroma_dir.docs)) :
          LET ids == HitIds(chroma_dir.docs, h)
              out == search_products(products_json, ids, score)
          IN  tool_call' = [tool |-> "search_products", args |-> <<limit>>, hits |-> ids,
                            status |-> out.status, value |-> out.value]
    /\ UNCHANGED <<loadVars, indexVars, agentVars, appVars>>

\* the tool find_products_for_athletes(): three queries with k=3
FindProductsForAthletes ==
    /\ ui = "ready"
    /\ \E h1, h2, h3 \in Hits(3, Len(chroma_dir.docs)) :
          LET ids == HitIds(chroma_dir.docs, h1 \o h2 \o h3)
              out == find_products_for_athletes(products_json, ids)
          IN  tool_call' = [tool |-> "find_products_for_athletes", args |-> <<>>, hits |-> ids,
                            status |-> out.status, value |-> out.value]
    /\ UNCHANGED <<loadVars, indexVars, agentVars, appVars>>

StoreNext ==
    \/ StartLoad
    \/ StartBuild
    \/ StartBuildFails
    \/ StartBuildError
    \/ NewSession
    \/ \E file \in StoreFiles : EditCatalog(file)
    \/ \E limit \in Limits, score \in Scores : SearchProducts(limit, score)
    \/ FindProductsForAthletes

SpecStore == StoreInit /\ [][StoreNext]_vars

\* no line of the file holds a JSON value that is no object
ObjectsOnly(file) ==
    \A i \in 1..Len(file) : \A j \in 1..Len(file[i]) :
        file[i][j].k = "json" => file[i][j].v.kind = "dict"

\* on files whose JSON values are all objects the loader keeps one entry per
\* valid line and none for a malformed one
LoaderOnObjectFiles == ObjectsOnly(products_file) => C6_OnePerValidLine

\* C7: a build that fails on the embedding service fails the construction and
\* stops the session, and an index is in use only if the build that wrote it
\* completed: what a failed build left is never loaded.
C7_FailedBuildNotUsable ==
    /\ construction = "failed" => (ui = "stopped" /\ vector_store = None)
    /\ vector_store # None => chroma_dir.complete

(***************************************************************************)
(* get_products_by_category on catalogs of up to MaxCatalog lines          *)
(***************************************************************************)
\* the letters with an upper and a lower case, as <<upper, lower>>
CasePairs ==
    { <<"D", "d">>, <<"A", "a">>, <<"I", "i">>, <<"R", "r">>, <<"Y", "y">>,
      <<"E", "e">>, <<"G", "g">>, <<"S", "s">>, <<"N", "n">>, <<"C", "c">>, <<"K", "k">> }

\* str.lower()
LowerChar(c) ==
    IF \E p \in CasePairs : p[1] = c THEN (CHOOSE p \in CasePairs : p[1] = c)[2] ELSE c

lower(str) == [i \in 1..Len(str) |-> LowerChar(str[i])]

\* needle in hay, on strings
In(needle, hay) ==
    \E k \in 0..(Len(hay) - Len(needle)) : SubSeq(hay, k + 1, k + Len(needle)) = needle

DairyEggs == <<"D", "a", "i", "r", "y", " ", "&", " ", "E", "g", "g", "s">>
Snacks == <<"S", "n", "a", "c", "k", "s">>

CategoryNames ==
    { <<>>, <<"d", "a", "i", "r", "y">>, <<"D", "A", "I", "R", "Y">>, <<"e", "g", "g", "s">>,
      Snacks, <<"s">>, <<"d", "a", "i", "r", "y", "s">> }

ProductNames ==
    <<"p01", "p02", "p03", "p04", "p05", "p06", "p07", "p08", "p09", "p10", "p11", "p12", "p13">>

\* the categories a catalog line may carry; "int" is a line holding a number
Templates == {"dairy", "both", "plain", "int"}

TemplateProduct(template, i) ==
    IF template = "int" THEN IntValue
    ELSE Dict(ProductNames[i], ProductNames[i], 0,
              CASE template = "dairy" -> <<DairyEggs>>
                [] template = "both" -> <<Snacks, DairyEggs>>
                [] OTHER -> <<>>)

\* catalog files: k lines of one template, then lines of another
CategoryFiles ==
    { [i \in 1..n |-> CatalogLine(TemplateProduct(IF i <= k THEN p ELSE q, i))] :
        n \in 0..MaxCatalog, k \in 0..MaxCatalog, p \in Templates, q \in Templates }

\* the entry get_products_by_category appends
CategoryEntry(product) ==
    [name |-> product.name, brand |-> product.brandName, price |-> Or(product.price, "N/A")]

\* the inner loop: some category name contains category_name, case folded
AnyCategory(categories, category_name) ==
    \E c \in 1..Len(categories) : In(lower(category_name), lower(categories[c]))

\* the outer loop of get_products_by_category, then matching_products[:10]
RECURSIVE CategoryFrom(_, _, _, _)
CategoryFrom(products, category_name, i, matching_products) ==
    IF i > Len(products)
    THEN [status |-> "ok",
          value |-> SubSeq(matching_products, 1, Min(10, Len(matching_products)))]
    ELSE IF products[i].kind # "dict" THEN [status |-> "raised", value |-> <<>>]
    ELSE CategoryFrom(products, category_name, i + 1,
                      IF AnyCategory(products[i].categories, category_name)
                      THEN Append(matching_products, CategoryEntry(products[i]))
                      ELSE matching_products)

get_products_by_category(products, category_name) ==
    CategoryFrom(products, category_name, 1, <<>>)

CategoryInit ==
    /\ AgentInit
    /\ AppNone
    /\ products_file \in CategoryFiles
    /\ products_json = _load_products(products_file)
    /\ step = "init"
    /\ chroma_dir = [exists |-> TRUE, nonempty |-> TRUE, docs |-> <<>>, complete |-> TRUE]
    /\ vector_store = "chroma_db_openai"
    /\ ui = "ready"
    /\ construction = "loaded"
    /\ tool_call = NoCall

\* the tool get_products_by_category(category_name)
GetProductsByCategory(category_name) ==
    /\ step = "init"
    /\ LET out == get_products_by_category(products_json, category_name)
       IN  tool_call' = [tool |-> "get_products_by_category", args |-> <<category_name>>,
                         hits |-> <<>>, status |-> out.status, value |-> out.value]
    /\ step' = "done"
    /\ UNCHANGED <<products_file, products_json, indexVars, agentVars, appVars>>

CategoryNext == \E category_name \in CategoryNames : GetProductsByCategory(category_name)

SpecCategory == CategoryInit /\ [][CategoryNext]_vars

\* two characters that are the same letter, whatever their case
SameLetter(a, b) == a = b \/ <<a, b>> \in CasePairs \/ <<b, a>> \in CasePairs

\* the category name holds the text at some offset, letter by letter
HoldsText(name, text) ==
    \E k \in 0..(Len(name) - Len(text)) :
        \A j \in 1..Len(text) : SameLetter(name[k + j], text[j])

\* the catalog positions of the products with a category holding the text
MatchingPositions(products, text) ==
    { i \in 1..Len(products) :
        \E c \in 1..Len(products[i].categories) : HoldsText(products[i].categories[c], text) }

\* C10: get_products_by_category returns the products with a category name that
\* contains category_name, case ignored, each once, in catalog order, cut after
\* the first 10.
C10_CategoryFilter ==
    (step = "done" /\ tool_call.tool = "get_products_by_category") =>
        LET matching == MatchingPositions(products_json, tool_call.args[1])
            value == tool_call.value
        IN  /\ tool_call.status = "ok"
            /\ Len(value) = Min(10, Cardinality(matching))
            /\ \A n \in 1..Len(value) :
                  \E i \in matching :
                      /\ Cardinality({j \in matching : j < i}) = n - 1
                      /\ value[n] = [name |-> products_json[i].name,
                                      brand |-> products_json[i].brandName,
                                      price |-> products_json[i].price]

\* on catalogs of dicts the category filter returns the first 10 matches
CategoryFilterOnDicts == AllDicts(products_json) => C10_CategoryFilter

\* C8: find_products_for_athletes returns at most 10 entries and no two of them
\* have the same product name.
C8_AthletesNoDuplicates ==
    (tool_call.tool = "find_products_for_athletes" /\ tool_call.status = "ok") =>
        /\ Len(tool_call.value) <= 10
        /\ \A i, j \in 1..Len(tool_call.value) :
              i # j => tool_call.value[i].name # tool_call.value[j].name

\* the catalog positions whose product has the sku
Resolving(products, sku) ==
    { j \in 1..Len(products) : products[j].kind = "dict" /\ products[j].sku = sku }

\* the hits that resolve, each as the catalog product of its sku, in hit order
RECURSIVE Hydrated(_, _, _)
Hydrated(products, ids, i) ==
    IF i > Len(ids) THEN <<>>
    ELSE (IF Resolving(products, ids[i]) = {} THEN <<>>
          ELSE <<products[CHOOSE j \in Resolving(products, ids[i]) : TRUE]>>)
         \o Hydrated(products, ids, i + 1)

\* C9: every entry of the index in use has a SKU that exactly one catalog product
\* carries, and search_products returns without raising at most `limit` entries:
\* the hits whose SKU resolves, in hit order, each with the fields of the catalog
\* product of that SKU.
C9_SkuResolution ==
    /\ ui = "ready" =>
          \A i \in 1..Len(chroma_dir.docs) :
              Cardinality(Resolving(products_json, chroma_dir.docs[i].id)) = 1
    /\ tool_call.tool = "search_products" =>
          LET expected == Hydrated(products_json, tool_call.hits, 1)
          IN  /\ tool_call.status = "ok"
              /\ Len(tool_call.value) <= tool_call.args[1]
              /\ Len(tool_call.value) = Len(expected)
              /\ \A i \in 1..Len(expected) :
                    /\ tool_call.value[i].name = expected[i].name
                    /\ tool_call.value[i].brand = expected[i].brandName
                    /\ tool_call.value[i].price = expected[i].price

\* on catalogs of dicts search_products omits the hits that do not resolve and
\* returns the others in hit order, at most `limit` of them
SearchOnDicts ==
    (AllDicts(products_json) /\ tool_call.tool = "search_products") =>
        LET expected == Hydrated(products_json, tool_call.hits, 1)
        IN  /\ tool_call.status = "ok"
            /\ Len(tool_call.value) <= tool_call.args[1]
            /\ Len(tool_call.value) = Len(expected)
            /\ \A i \in 1..Len(expected) :
                  /\ tool_call.value[i].name = expected[i].name
                  /\ tool_call.value[i].brand = expected[i].brandName
                  /\ tool_call.value[i].price = expected[i].price

\* some hit of the last search did not resolve and was left out
SearchDroppedHit ==
    /\ tool_call.tool = "search_products" /\ tool_call.status = "ok"
    /\ Len(tool_call.value) < Len(tool_call.hits)

(***************************************************************************)
(* The chat session of app.py: st.session_state.messages and .thread_id,   *)
(* the chat input, the quick-action buttons and the clear button           *)
(***************************************************************************)
\* the values str(uuid.uuid4()) can take: thread ids other than the default of query()
UUIDs == ThreadIds \ {"default"}

\* str(uuid.uuid4()): a value no earlier call has returned
uuid4_Reuse(earlier) == earlier

uuid4(earlier) == UUIDs \ earlier

\* the fixed prompts of the three quick-action buttons
ButtonPrompts ==
    {"What products are good for athletes?",
     "Suggest ingredients for a pasta recipe",
     "Show me healthy snacks"}

\* the entries of st.session_state.messages
ChatMessage(role, content) == [role |-> role, content |-> content]

\* error_msg = f"Sorry, I encountered an error: {str(e)}", e raised by the node `at`
error_msg(at) ==
    IF at = "agent" THEN "Sorry, I encountered an error: <str(e) of the model call>"
    ELSE "Sorry, I encountered an error: <str(e) of the tool>"

\* except Exception as e: the error message is appended as the assistant's turn
OnException_Silent(chat, at) == chat

OnException(chat, at) == Append(chat, ChatMessage("assistant", error_msg(at)))

\* initialize_session_state has run: empty chat, a uuid as thread id, rag_system set
UIInit ==
    /\ AgentInit
    /\ StoreFixed
    /\ session_messages = <<>>
    /\ session_thread_id \in UUIDs
    /\ generated = {session_thread_id}
    /\ last_ui = "none"
    /\ sessions = <<>>
    /\ writes = <<>>

\* the user's turn is appended, then rag_system.query(prompt, thread_id=...) is called
UserTurn(prompt) ==
    /\ ui = "ready"
    /\ session_messages' = Append(session_messages, ChatMessage("user", prompt))
    /\ QueryCall(prompt, session_thread_id)
    /\ UNCHANGED <<session_thread_id, generated, storeVars, sessVars>>

\* if prompt := st.chat_input(...)
ChatInput(prompt) ==
    /\ UserTurn(prompt)
    /\ last_ui' = "input"

\* the quick-action buttons, drawn only while the chat is empty
QuickAction(button_prompt) ==
    /\ Len(session_messages) = 0
    /\ UserTurn(button_prompt)
    /\ last_ui' = "button"

\* query() returned: the response is appended as the assistant's turn
ShowResponse ==
    /\ ReturnContent
    /\ session_messages' = Append(session_messages, ChatMessage("assistant", returned'))
    /\ UNCHANGED <<session_thread_id, generated, last_ui, storeVars, sessVars>>

\* query() raised in the node `at`: the except branch of the turn
ShowError(at) ==
    /\ Raise(at)
    /\ session_messages' = OnException(session_messages, at)
    /\ UNCHANGED <<session_thread_id, generated, last_ui, storeVars, sessVars>>

\* the "Clear Chat History" button
ClearChat ==
    /\ ui = "ready"
    /\ pc = "idle"
    /\ session_messages' = <<>>
    /\ \E u \in uuid4(generated) :
          /\ session_thread_id' = u
          /\ generated' = generated \cup {u}
    /\ last_ui' = "clear"
    /\ UNCHANGED <<agentVars, storeVars, sessVars>>

UINext ==
    \/ \E prompt \in Questions : ChatInput(prompt)
    \/ \E button_prompt \in ButtonPrompts : QuickAction(button_prompt)
    \/ \E r \in Responses : Agent(r.text, r.calls)
    \/ \E results \in ResultLists : Tools(results)
    \/ ShowResponse
    \/ \E at \in {"agent", "tools"} : ShowError(at)
    \/ ClearChat

SpecUI == UIInit /\ [][UINext]_vars

(***************************************************************************)
(* The chat session: properties                                            *)
(***************************************************************************)
\* the step in which query() raises out of a user turn
QueryRaises == pc # "idle" /\ outcome' = "raised"

\* the step of the clear button: the only handler that starts and ends with no query running
ClearStep == pc = "idle" /\ pc' = "idle"

\* the rag_system of the session: its catalog, its index handle, its graph's memory
rag_system == <<ui, products_json, vector_store, checkpoint>>

\* C11: when query() raises during a user turn (typed or quick-action), the
\* handler appends exactly one assistant-role error message after the user's
\* message, leaves thread id and rag_system unchanged, and the session is back
\* at rest with rag_system set, ready for the next turn; the chat always
\* alternates user and assistant entries.
C11_QueryFailureCaught ==
    /\ [][QueryRaises =>
            /\ last_ui \in {"input", "button"}
            /\ Last(session_messages).role = "user"
            /\ Len(session_messages') = Len(session_messages) + 1
            /\ SubSeq(session_messages', 1, Len(session_messages)) = session_messages
            /\ Last(session_messages').role = "assistant"
            /\ Last(session_messages').content \in {error_msg("agent"), error_msg("tools")}
            /\ session_thread_id' = session_thread_id
            /\ rag_system' = rag_system
            /\ ui' = "ready" /\ pc' = "idle"]_vars
    /\ [](\A i \in 1..Len(session_messages) :
            session_messages[i].role = (IF i % 2 = 1 THEN "user" ELSE "assistant"))
    /\ [](Len(session_messages) % 2 = (IF pc = "idle" THEN 0 ELSE 1))

\* a quick-action turn failed in a tool, and the next, typed turn was answered
C11_Witness ==
    /\ Len(session_messages) = 4
    /\ session_messages[1].content \in ButtonPrompts
    /\ session_messages[2] = ChatMessage("assistant", error_msg("tools"))
    /\ session_messages[3].content \in Questions
    /\ session_messages[4] = ChatMessage("assistant", "answer")
    /\ outcome = "returned"

\* C12: clearing the chat empties the session's message list and sets a thread
\* id that was never generated or used before, leaving the catalog, the
\* persisted index and the rag_system unchanged; the first query after a clear
\* runs under the new id on a history holding only its own system prompt and
\* question.
C12_ClearChat ==
    /\ [][ClearStep =>
            /\ session_messages' = <<>>
            /\ session_thread_id' \in UUIDs \ (generated \cup used)
            /\ session_thread_id' # session_thread_id
            /\ products_file' = products_file
            /\ chroma_dir' = chroma_dir
            /\ rag_system' = rag_system]_vars
    /\ [][(last_ui = "clear" /\ QueryStep) =>
            /\ cur' = session_thread_id
            /\ checkpoint'[cur'] =
                  <<SystemMessage(cur'),
                    HumanMessage(Last(session_messages').content, cur')>>]_vars

\* a conversation was held, the chat was cleared, and the next query has started
C12_Witness ==
    /\ Cardinality(generated) = 2
    /\ pc = "agent"
    /\ cur = session_thread_id
    /\ Len(session_messages) = 1
    /\ Len(checkpoint[cur]) = 2
    /\ \E t \in generated \ {cur} : Len(checkpoint[t]) > 2

(***************************************************************************)
(* Constructions of ProductRAG by several browser sessions over the one    *)
(* directory chroma_db_openai. Streamlit runs the script of each session   *)
(* in its own thread, so _init_vector_store of one session can run between *)
(* the directory test of another session and that session's from_texts.    *)
(***************************************************************************)
SessionIds == 1..MaxSessions

\* a session: where its ProductRAG() is, the catalog it loaded, its index handle
Session(at, products, store) == [at |-> at, products |-> products, store |-> store]

NoSession == Session("none", <<>>, None)

\* what chroma_db_openai holds after from_texts has added `metadatas` to it
Persist(dir, metadatas, complete) ==
    [exists |-> TRUE, nonempty |-> TRUE, docs |-> dir.docs \o metadatas, complete |-> complete]

\* the catalogs products.txt is seen with: one product, two products, a non-object line
SessionFiles ==
    { <<CatalogLine(Yogurt)>>,
      <<CatalogLine(Yogurt), CatalogLine(Chips)>>,
      <<CatalogLine(IntValue)>> }

SessionsInit ==
    /\ AgentInit
    /\ IndexNone
    /\ session_messages = <<>>
    /\ session_thread_id = None
    /\ generated = {}
    /\ last_ui = "none"
    /\ products_file \in SessionFiles
    /\ products_json = <<>>
    /\ step = "done"
    /\ sessions = [s \in SessionIds |-> NoSession]
    /\ writes = <<>>

\* the session leaves its own entry and maybe the directory changed, nothing else
SessionFrame ==
    UNCHANGED <<products_file, products_json, step, vector_store, ui, construction,
                tool_call, agentVars, uiVars>>

\* ProductRAG() of session s finds the directory non-empty and opens it
SessionLoad(s) ==
    /\ sessions[s].at \in {"none", "stopped"}
    /\ IndexExists(chroma_dir)
    /\ sessions' = [sessions EXCEPT
                      ![s] = Session("ready", _load_products(products_file), "chroma_db_openai")]
    /\ UNCHANGED <<chroma_dir, writes>>
    /\ SessionFrame

\* ProductRAG() of session s finds no index and prepares documents and metadatas
SessionBuildBegin(s) ==
    /\ sessions[s].at \in {"none", "stopped"}
    /\ ~IndexExists(chroma_dir)
    /\ LET products == _load_products(products_file)
       IN  sessions' = [sessions EXCEPT
                          ![s] = IF AllDicts(products)
                                 THEN Session("building", products, None)
                                 ELSE Session("stopped", <<>>, None)]
    /\ UNCHANGED <<chroma_dir, writes>>
    /\ SessionFrame

\* Chroma.from_texts of session s embeds and persists every document
SessionBuildEnd(s) ==
    /\ sessions[s].at = "building"
    /\ chroma_dir' = Persist(chroma_dir, Metadatas(sessions[s].products), TRUE)
    /\ writes' = Append(writes, s)
    /\ sessions' = [sessions EXCEPT ![s].at = "ready", ![s].store = "chroma_db_openai"]
    /\ SessionFrame

\* the embedding call of session s raises: the session stops, with nothing or
\* with the batches embedded so far left in the directory
SessionBuildFails(s) ==
    /\ sessions[s].at = "building"
    /\ \/ UNCHANGED <<chroma_dir, writes>>
       \/ \E n \in 0..(Len(sessions[s].products) - 1) :
             /\ chroma_dir' = Persist(chroma_dir,
                                 SubSeq(Metadatas(sessions[s].products), 1, n),
                                 chroma_dir.complete)
             /\ writes' = Append(writes, s)
    /\ sessions' = [sessions EXCEPT ![s] = Session("stopped", <<>>, None)]
    /\ SessionFrame

\* the browser tab of a ready session is closed; a later visit is a new session
SessionEnd(s) ==
    /\ sessions[s].at = "ready"
    /\ sessions' = [sessions EXCEPT ![s] = NoSession]
    /\ UNCHANGED <<chroma_dir, writes>>
    /\ SessionFrame

\* products.txt is replaced while the application is deployed
SessionEditCatalog(file) ==
    /\ file # products_file
    /\ products_file' = file
    /\ UNCHANGED <<products_json, step, indexVars, tool_call, agentVars, appVars>>

SessionsNext ==
    \/ \E s \in SessionIds : SessionLoad(s)
    \/ \E s \in SessionIds : SessionBuildBegin(s)
    \/ \E s \in SessionIds : SessionBuildEnd(s)
    \/ \E s \in SessionIds : SessionBuildFails(s)
    \/ \E s \in SessionIds : SessionEnd(s)
    \/ \E file \in SessionFiles : SessionEditCatalog(file)

SpecSessions == SessionsInit /\ [][SessionsNext]_vars

\* some construction is between its directory test and the end of its from_texts
Building == \E s \in SessionIds : sessions[s].at = "building"

\* the step is the directory test of a construction: it ends loaded, or building / in error
Constructs(s) == sessions[s].at \in {"none", "stopped"} /\ sessions'[s] # sessions[s]

\* C13: the directory being present and non-empty is the sole signal choosing
\* load over build; once a build has completed, no construction changes the
\* directory again, also when the catalog has changed; over all constructions,
\* of whatever sessions, the index is written by one construction at most.
C13_BuildOnce ==
    /\ [][\A s \in SessionIds : Constructs(s) =>
            (sessions'[s].at = "ready" <=> IndexExists(chroma_dir))]_vars
    /\ [][chroma_dir.complete => chroma_dir' = chroma_dir]_vars
    /\ [](Len(writes) <= 1)

\* with no construction in flight, an existing index is never written again
BuildOnceAtRest ==
    [][(IndexExists(chroma_dir) /\ ~Building) => (chroma_dir' = chroma_dir /\ ~Building')]_vars

(***************************************************************************)
(* The agent loop with no bound on what the LLM asks for: graph.invoke is  *)
(* called with config = {"configurable": {"thread_id": ...}}, so the       *)
(* super-steps of one invoke are limited by LangGraph's default            *)
(* recursion_limit and by nothing else                                     *)
(***************************************************************************)
\* the recursion_limit graph.invoke runs under when the config names none
RecursionLimit == 25

\* query() calls per behaviour of this specification
LoopTurns == 1

\* super-steps (node executions) of the invoke that the history's last human message began
RECURSIVE StepsFrom(_, _)
StepsFrom(msgs, i) ==
    IF i = 0 \/ msgs[i].type = "human" THEN 0
    ELSE StepsFrom(msgs, i - 1)
         + (IF msgs[i].type = "ai" THEN 1
            ELSE IF msgs[i].type = "tool" /\ msgs[i - 1].type = "ai" THEN 1 ELSE 0)

Steps(msgs) == StepsFrom(msgs, Len(msgs))

\* the invoke has used up its super-steps and a node is still due
out_of_steps_Never(steps) == FALSE

out_of_steps(steps) == steps >= RecursionLimit

LoopQuery(question, arg) ==
    /\ turns < LoopTurns
    /\ Query(question, arg)

LoopAgent(text, calls) ==
    /\ ~out_of_steps(Steps(CheckpointGet(checkpoint, cur)))
    /\ AgentNode(text, calls)
    /\ UNCHANGED <<storeVars, appVars>>

LoopTools(results) ==
    /\ ~out_of_steps(Steps(CheckpointGet(checkpoint, cur)))
    /\ Tools(results)

\* GraphRecursionError: raised by graph.invoke, not caught in query()
LoopOutOfSteps ==
    /\ pc \in {"agent", "tools"}
    /\ out_of_steps(Steps(CheckpointGet(checkpoint, cur)))
    /\ Raise(pc)
    /\ UNCHANGED <<storeVars, appVars>>

LoopNext ==
    \/ \E q \in Questions, arg \in ThreadArgs : LoopQuery(q, arg)
    \/ \E r \in Responses : LoopAgent(r.text, r.calls)
    \/ \E results \in ResultLists : LoopTools(results)
    \/ LoopOutOfSteps
    \/ Return

SpecLoop == Init /\ [][LoopNext]_vars

\* the step enters end
ReachesEnd == pc # "end" /\ pc' = "end"

\* the history of the running thread has grown
HistoryGrows == Len(checkpoint'[cur]) > Len(checkpoint[cur])

\* C14: the loop has no cap: a run reaches end only on a response without tool
\* calls, and whenever the model has requested tool calls the tools run, the
\* history grows and the model is invoked again, however often this has
\* happened in the run.
C14_NoCap ==
    /\ [][ReachesEnd => Last(checkpoint'[cur]).tool_calls = <<>>]_vars
    /\ [][pc = "tools" => (pc' = "agent" /\ HistoryGrows)]_vars

\* C14, amended: a run reaches end only on a response without tool calls; a
\* requested tool round runs, grows the history and re-invokes the model while
\* the invoke has super-steps left, and at RecursionLimit super-steps query()
\* raises instead, leaving the history as it is; no invoke runs more than
\* RecursionLimit super-steps.
C14_CappedByRecursionLimit ==
    /\ [][ReachesEnd => Last(checkpoint'[cur]).tool_calls = <<>>]_vars
    /\ [][pc = "tools" =>
            IF Steps(checkpoint[cur]) < RecursionLimit
            THEN pc' = "agent" /\ HistoryGrows
            ELSE pc' = "idle" /\ outcome' = "raised" /\ checkpoint' = checkpoint]_vars
    /\ [](Steps(checkpoint[cur]) <= RecursionLimit)

\* every response of the run requested tool calls, and query() has raised
C14_Witness ==
    /\ outcome = "raised"
    /\ Steps(checkpoint[cur]) = RecursionLimit
    /\ \A i \in 1..Len(checkpoint[cur]) :
          checkpoint[cur][i].type = "ai" => checkpoint[cur][i].tool_calls # <<>>

TypeOK ==
    /\ pc \in {"idle", "agent", "tools", "end"}
    /\ cur \in ThreadIds
    /\ turns \in 0..MaxTurns
====
